---- MODULE Spec2Model ----
(***************************************************************************)
(* A model of examples/ner/bert/system_wrapper.py: NERBERTSystemWrapper,   *)
(* its construction, train / _train_impl, evaluate / _evaluate_impl and    *)
(* the static sweep tune, as driven by one caller script (one thread).     *)
(*                                                                         *)
(* Conventions.                                                            *)
(*  - Floating-point hyper-parameters are kept as scaled integers:         *)
(*    learning rates in units of 1e-5 (5e-5 is 5), dropouts in tenths      *)
(*    (0.1 is 1).                                                          *)
(*  - Model weights, scores and reports are symbolic values that record    *)
(*    everything they were computed from, so "the same score" means "the   *)
(*    same computation on the same inputs".                                *)
(*  - The global torch RNG is [seed, draws]: torch.manual_seed(s) resets   *)
(*    it to [s, 0]; every consumer advances draws.                         *)
(*  - A call into an external library (tokenizer, dataset, DataLoader,     *)
(*    optimizer, training engine, seqeval, the file system) may raise;     *)
(*    nothing in the module catches, so the exception ends the public      *)
(*    call that is running.                                                *)
(***************************************************************************)
EXTENDS Integers, Sequences, FiniteSets, TLC

\* ------------------------------------------------------------ bounds
\* the public calls the caller's script makes (constructions included) and
\* the wrappers it holds; a script that runs the sweep ends with it
MaxCalls == 3
MaxWrappers == 2

\* ------------------------------------------------------------ inputs
PretrainedNames == {"bert-base-greek"}
ConstructDropouts == {0, 1}
Seeds == {0, 1}
TrainLrs == {3}
TrainAccum == {2}
BatchSizes == {8}
\* a dataset file is known by the number of examples it holds
DatasetSizes == {0, 12}
TrainSizes == {8}
WhichModels == {-4, -3, -1, 0, 2, 3}
Experiments == {7}

\* ------------------------------------------------------------ tune's grid
\* lines 213-216; lrs in units of 1e-5, dp in tenths
lrs == <<5, 3, 2>>
dp == <<0, 1, 2>>
grad_accumulation_steps == <<2, 4>>
batch_size == 8

\* a wrong grid: zip(lrs, dp, grad_accumulation_steps) in place of product
paramsZip ==
  [ i \in 1 .. Len(grad_accumulation_steps) |->
      << lrs[i], dp[i], grad_accumulation_steps[i] >> ]

\* itertools.product(lrs, dp, grad_accumulation_steps): the rightmost
\* factor advances fastest (line 217)
params ==
  [ i \in 1 .. (Len(lrs) * Len(dp) * Len(grad_accumulation_steps)) |->
      << lrs[((i - 1) \div (Len(dp) * Len(grad_accumulation_steps))) + 1],
         dp[(((i - 1) \div Len(grad_accumulation_steps)) % Len(dp)) + 1],
         grad_accumulation_steps[((i - 1) % Len(grad_accumulation_steps)) + 1] >> ]

\* ------------------------------------------------------------ report paths
\* line 190: the list the selector indexes
ReportDirs == <<"greek_legal_v2", "greek", "greek_legal_v1">>

\* Python list indexing: 0 .. n-1 from the front, -1 .. -n from the back,
\* IndexError otherwise
PyIndexOk(list, i) == (i >= -Len(list)) /\ (i < Len(list))

PyIndex(list, i) == IF i >= 0 THEN list[i + 1] ELSE list[Len(list) + i + 1]

DirNames == {ReportDirs[k] : k \in 1 .. Len(ReportDirs)}

\* line 192: '../NER/reports/' + dir + '/report_' + str(experiment) + '.txt'
ReportPath(dir, experiment) == <<dir, experiment>>

ReportPaths == DirNames \X (Experiments \cup {-1})

NoFile == [state |-> "absent", by |-> 0]

\* ------------------------------------------------------------ RNG
\* torch.manual_seed (lines 44, 240)
Seeded(s) == [seed |-> s, draws |-> 0]

Draw(r) == [r EXCEPT !.draws = @ + 1]

\* the generator as the process starts, before anybody seeds it: a state
\* no torch.manual_seed of the inputs produces
DefaultRng == [seed |-> 100, draws |-> 0]

\* ------------------------------------------------------------ devices
\* lines 27-32
SelectDevice(available) == IF available THEN "cuda" ELSE "cpu"

\* line 168: the device the report branch moves the batch targets to
ReportTargetDevice(stored) == "cuda:0"

\* torch resolves 'cuda' to the current CUDA device, which is 0 as the
\* module never selects another
Resolve(d) == IF d = "cuda" THEN "cuda:0" ELSE d

\* ------------------------------------------------------------ weights
\* NERBERTModel(bert_model, **model_params): the pretrained encoder and a
\* freshly initialised classification head (lines 22-23)
InitWeights(name, dropout, r) ==
  [name |-> name, dp |-> dropout, init |-> r, hist |-> << >>]

\* what the training engine leaves in the model (lines 104-122)
Trained(w, r, lr, bs, gas, multi, train, val, completed) ==
  [w EXCEPT !.hist = Append(@, [rng |-> r, lr |-> lr, bs |-> bs, gas |-> gas,
                               multi |-> multi, train |-> train, val |-> val,
                               completed |-> completed])]

\* DataLoader(batch_size=...): the number of batches of a dataset
NumBatches(n, bs) == (n + bs - 1) \div bs

\* the six evaluators of lines 143-159
EvalKeys == {"macro-prec", "macro-rec", "macro-f1", "micro-prec", "micro-rec", "micro-f1"}

\* a wrong selection: the flag read the other way round
EvalEngineSwapped(multi) == IF multi THEN "evaluate" ELSE "evaluate_on_multi_gpus"

\* lines 198-201
EvalEngine(multi) == IF multi THEN "evaluate_on_multi_gpus" ELSE "evaluate"

\* the score object an evaluator yields for a model on a dataset
Score(key, w, data, bs) == [key |-> key, w |-> w, data |-> data, bs |-> bs]

\* a wrong sweep: tune asks for the report as evaluate does
TuneReportFlagOn == TRUE

\* line 263: tune's report argument to _evaluate_impl
TuneReportFlag == FALSE

\* lines 264-265: tune's which_model and experiment arguments
TuneWhichModel == -1

TuneExperiment == -1

\* line 132: evaluate's report argument to _evaluate_impl
EvaluateReportFlag == TRUE

\* ------------------------------------------------------------ state
VARIABLES
  cuda,          \* torch.cuda.is_available() in this process
  existingDirs,  \* the report directories that exist on disk
  rng,           \* the global torch RNG
  uuids,         \* how many uuid4 values the process has drawn
  models,        \* the heap of model objects: reference -> weights
  wrappers,      \* the wrappers the caller holds: [device, model, name, dp]
  files,         \* report path -> [state, by]
  tmpDirs,       \* the directories that exist under /tmp
  pc,            \* where the running call is
  frame,         \* the running call's arguments and locals
  last,          \* how the last finished call ended
  calls,         \* public calls started so far
  implRuns,      \* _train_impl invocations so far
  mkdirs,        \* the scratch names os.makedirs has created, in order
  noDirRuns,     \* _train_impl invocations that raised before line 100 was done
  placements,    \* every (device of the system, device a batch tensor went to)
  trainLog       \* one record per train call whose engine returned

vars == << cuda, existingDirs, rng, uuids, models, wrappers, files, tmpDirs, pc,
           frame, last, calls, implRuns, mkdirs, noDirRuns, placements, trainLog >>

env == << cuda, existingDirs >>

NoFiles == [p \in ReportPaths |-> NoFile]

NoStart == [rng |-> Seeded(0), w |-> InitWeights("", 0, Seeded(0))]

NoWrapper == [device |-> "none", model |-> 0, name |-> "", dp |-> 0]

NoFrame ==
  [op |-> "none", w |-> NoWrapper, lr |-> 0, bs |-> 0, gas |-> 0, multi |-> FALSE,
   seed |-> 0, train |-> 0, val |-> 0, data |-> 0, report |-> FALSE, which |-> 0,
   experiment |-> 0, batch |-> 0, i |-> 0, results |-> << >>, refs |-> << >>,
   dir |-> "", before |-> NoFiles, start |-> NoStart, metrics |-> FALSE,
   name |-> "", call |-> 0, base |-> 0]

NoLast ==
  [op |-> "none", status |-> "none", stage |-> "", err |-> "", report |-> FALSE,
   which |-> 0, experiment |-> 0, multi |-> FALSE, before |-> NoFiles,
   keys |-> {}, engine |-> "", metrics |-> FALSE, results |-> << >>, call |-> 0]

\* the record of a call that has ended
Ended(status, stage, err, keys, engine, results) ==
  [op |-> frame.op, status |-> status, stage |-> stage, err |-> err,
   report |-> frame.report, which |-> frame.which, experiment |-> frame.experiment,
   multi |-> frame.multi, before |-> frame.before, keys |-> keys, engine |-> engine,
   metrics |-> frame.metrics, results |-> results, call |-> frame.call]

Init ==
  /\ cuda \in BOOLEAN
  /\ existingDirs \in {DirNames, {}}
  /\ rng = DefaultRng
  /\ uuids = 0
  /\ models = << >>
  /\ wrappers = << >>
  /\ files = NoFiles
  /\ tmpDirs = {}
  /\ pc = "idle"
  /\ frame = NoFrame
  /\ last = NoLast
  /\ calls = 0
  /\ implRuns = 0
  /\ mkdirs = << >>
  /\ noDirRuns = 0
  /\ placements = {}
  /\ trainLog = {}

\* ------------------------------------------------------------ helpers
\* the model objects that outlive the running call: the wrappers tune builds
\* are its locals and die with it
Live(heap) == IF frame.op = "tune" THEN SubSeq(heap, 1, frame.base) ELSE heap

RaiseAt(stage, err) ==
  /\ last' = Ended("error", stage, err, {}, "", << >>)
  /\ pc' = "idle"
  /\ frame' = NoFrame

\* the stages whose external call may raise whatever the state is
MayRaise ==
  {"train_load", "train_setup", "train_mkdir", "eval_load", "eval_build",
   "rep_batch", "rep_labelmap", "rep_report", "rep_write", "eval_metrics",
   "tune_load", "tune_iter"}

\* the stages of the report branch, lines 162-194
ReportStages ==
  {"rep_batch", "rep_labelmap", "rep_report", "rep_lookup", "rep_open", "rep_write"}

\* a wrong scratch path: one fixed directory for every run
ScratchNameFixed(n) == 1

\* uuid.uuid4().hex[:30] (line 99): the n-th value the process draws; two
\* draws never agree (120 random bits)
ScratchName(n) == n + 1

\* ------------------------------------------------------------ __init__
\* lines 19-32
Construct(name, dropout) ==
  /\ pc = "idle"
  /\ calls < MaxCalls
  /\ Len(wrappers) < MaxWrappers
  /\ calls' = calls + 1
  /\ models' = Append(models, InitWeights(name, dropout, rng))
  /\ rng' = Draw(rng)
  /\ wrappers' = Append(wrappers, [device |-> SelectDevice(cuda),
                                   model |-> Len(models) + 1,
                                   name |-> name, dp |-> dropout])
  /\ UNCHANGED << env, uuids, files, tmpDirs, pc, frame, last, implRuns,
                  mkdirs, noDirRuns, placements, trainLog >>

\* ------------------------------------------------------------ train
\* line 44: the call seeds the generator first
Train(k, train, val, lr, bs, gas, multi, seed) ==
  /\ pc = "idle"
  /\ calls < MaxCalls
  /\ k \in 1 .. Len(wrappers)
  /\ calls' = calls + 1
  /\ rng' = Seeded(seed)
  /\ frame' = [NoFrame EXCEPT !.op = "train", !.w = wrappers[k], !.lr = lr,
                              !.bs = bs, !.gas = gas, !.multi = multi,
                              !.seed = seed, !.train = train, !.val = val,
                              !.before = files, !.call = calls + 1]
  /\ pc' = "train_load"
  /\ last' = NoLast
  /\ UNCHANGED << env, uuids, models, wrappers, files, tmpDirs, implRuns,
                  mkdirs, noDirRuns, placements, trainLog >>

\* lines 45-59: tokenizer and the two datasets, then the call of _train_impl
TrainLoad ==
  /\ pc = "train_load"
  /\ pc' = "train_setup"
  /\ implRuns' = implRuns + 1
  /\ UNCHANGED << env, rng, uuids, models, wrappers, files, tmpDirs, frame,
                  last, calls, mkdirs, noDirRuns, placements, trainLog >>

\* lines 82-97: loaders, loss wrapper, optimizer
TrainImplSetup ==
  /\ pc = "train_setup"
  /\ pc' = "train_mkdir"
  /\ frame' = [frame EXCEPT !.start = [rng |-> rng, w |-> models[frame.w.model]]]
  /\ UNCHANGED << env, rng, uuids, models, wrappers, files, tmpDirs, last,
                  calls, implRuns, mkdirs, noDirRuns, placements, trainLog >>

\* lines 99-100: base_es_path and os.makedirs(base_es_path, exist_ok=True)
TrainImplMkdir ==
  /\ pc = "train_mkdir"
  /\ uuids' = uuids + 1
  /\ tmpDirs' = tmpDirs \cup {ScratchName(uuids)}
  /\ mkdirs' = Append(mkdirs, ScratchName(uuids))
  /\ pc' = "train_engine"
  /\ UNCHANGED << env, rng, models, wrappers, files, frame, last, calls,
                  implRuns, noDirRuns, placements, trainLog >>

\* what the engine of lines 102-122 does to the model, the RNG and the
\* batches, whether it returns or raises
EngineRan(completed) ==
  /\ LET heap == [models EXCEPT ![frame.w.model] =
                    Trained(@, rng, frame.lr, frame.bs, frame.gas, frame.multi,
                            frame.train, frame.val, completed)]
     IN  models' = IF completed THEN heap ELSE Live(heap)
  /\ rng' = Draw(rng)
  /\ placements' = placements \cup
                     {[site |-> "train", stored |-> frame.w.device,
                       used |-> frame.w.device]}

\* lines 102-122 return; train returns None, tune goes on to line 258
TrainImplEngine ==
  /\ pc = "train_engine"
  /\ EngineRan(TRUE)
  /\ IF frame.op = "train"
       THEN /\ trainLog' = trainLog \cup
                 {[ctor |-> <<frame.w.name, frame.w.dp>>,
                   args |-> <<frame.train, frame.val, frame.lr, frame.bs,
                              frame.gas, frame.multi, frame.seed>>,
                   wrapper |-> frame.w.model,
                   start |-> frame.start,
                   final |-> models'[frame.w.model]]}
            /\ last' = Ended("ok", "", "", {}, "", << >>)
            /\ pc' = "idle"
            /\ frame' = NoFrame
       ELSE /\ pc' = "eval_build"
            /\ frame' = [frame EXCEPT !.data = frame.val,
                                      !.report = TuneReportFlag,
                                      !.which = TuneWhichModel,
                                      !.experiment = TuneExperiment]
            /\ UNCHANGED << trainLog, last >>
  /\ UNCHANGED << env, uuids, wrappers, files, tmpDirs, calls, implRuns,
                  mkdirs, noDirRuns >>

\* the engine raises part-way: the model keeps the updates made so far
TrainImplEngineRaise ==
  /\ pc = "train_engine"
  /\ EngineRan(FALSE)
  /\ RaiseAt("train_engine", "Exception")
  /\ UNCHANGED << env, uuids, wrappers, files, tmpDirs, calls, implRuns,
                  mkdirs, noDirRuns, trainLog >>

\* ------------------------------------------------------------ evaluate
\* line 124; the model draws each argument where the code first reads it:
\* the dataset in EvalLoad, which_model in ReportLookup, experiment in
\* ReportOpen, run_on_multi_gpus in EvalImplMetrics
Evaluate(k, bs) ==
  /\ pc = "idle"
  /\ calls < MaxCalls
  /\ k \in 1 .. Len(wrappers)
  /\ calls' = calls + 1
  /\ frame' = [NoFrame EXCEPT !.op = "evaluate", !.w = wrappers[k], !.bs = bs,
                              !.before = files, !.call = calls + 1]
  /\ pc' = "eval_load"
  /\ last' = NoLast
  /\ UNCHANGED << env, rng, uuids, models, wrappers, files, tmpDirs, implRuns,
                  mkdirs, noDirRuns, placements, trainLog >>

\* lines 125-132: tokenizer and dataset, then the call of _evaluate_impl
EvalLoad(data) ==
  /\ pc = "eval_load"
  /\ frame' = [frame EXCEPT !.data = data, !.report = EvaluateReportFlag]
  /\ pc' = "eval_build"
  /\ UNCHANGED << env, rng, uuids, models, wrappers, files, tmpDirs, last,
                  calls, implRuns, mkdirs, noDirRuns, placements, trainLog >>

\* a wrong order: the output file is opened before the report is computed
ReportOrderOpenFirst ==
  <<"rep_lookup", "rep_open", "rep_batch", "rep_labelmap", "rep_report", "rep_write">>

\* the order of the report branch's steps, lines 166-194
ReportOrder ==
  <<"rep_batch", "rep_labelmap", "rep_report", "rep_lookup", "rep_open", "rep_write">>

\* the step after a step of the report branch; the metric evaluation of
\* lines 198-201 follows the last one
After(stage) ==
  LET k == CHOOSE j \in 1 .. Len(ReportOrder) : ReportOrder[j] = stage
  IN  IF k < Len(ReportOrder) THEN ReportOrder[k + 1] ELSE "eval_metrics"

\* lines 136-162: loader and evaluators, then the branch on report
EvalImplBuild ==
  /\ pc = "eval_build"
  /\ pc' = IF frame.report = TRUE THEN ReportOrder[1] ELSE "eval_metrics"
  /\ UNCHANGED << env, rng, uuids, models, wrappers, files, tmpDirs, frame,
                  last, calls, implRuns, mkdirs, noDirRuns, placements,
                  trainLog >>

BatchesLeft == frame.batch < NumBatches(frame.data, frame.bs)

\* lines 166-181, one pass of the loop: the targets go to the device of
\* line 168 (which raises when that device is a CUDA device and there is
\* none), predict_batch moves the input to the system's device
ReportBatch ==
  /\ pc = "rep_batch"
  /\ BatchesLeft
  /\ LET target == ReportTargetDevice(frame.w.device)
         moved == [site |-> "report_target", stored |-> frame.w.device,
                   used |-> target]
         input == [site |-> "report_input", stored |-> frame.w.device,
                   used |-> frame.w.device]
     IN  IF Resolve(target) # "cpu" /\ ~cuda
           THEN /\ placements' = placements \cup {moved}
                /\ RaiseAt("rep_batch", "RuntimeError")
           ELSE /\ placements' = placements \cup {moved, input}
                /\ frame' = [frame EXCEPT !.batch = @ + 1]
                /\ UNCHANGED << pc, last >>
  /\ UNCHANGED << env, rng, uuids, models, wrappers, files, tmpDirs, calls,
                  implRuns, mkdirs, noDirRuns, trainLog >>

\* the loop of line 166 is exhausted
ReportLoopEnd ==
  /\ pc = "rep_batch"
  /\ ~BatchesLeft
  /\ pc' = After("rep_batch")
  /\ UNCHANGED << env, rng, uuids, models, wrappers, files, tmpDirs, frame,
                  last, calls, implRuns, mkdirs, noDirRuns, placements,
                  trainLog >>

\* lines 183-184 (label mapping) and 186-188 (classification_report, prints)
ReportCompute ==
  /\ pc \in {"rep_labelmap", "rep_report"}
  /\ pc' = After(pc)
  /\ UNCHANGED << env, rng, uuids, models, wrappers, files, tmpDirs, frame,
                  last, calls, implRuns, mkdirs, noDirRuns, placements,
                  trainLog >>

\* line 190
ReportLookup(which) ==
  /\ pc = "rep_lookup"
  /\ IF frame.op = "tune" THEN which = frame.which ELSE which \in WhichModels
  /\ IF PyIndexOk(ReportDirs, which)
       THEN /\ frame' = [frame EXCEPT !.which = which,
                                      !.dir = PyIndex(ReportDirs, which)]
            /\ pc' = After("rep_lookup")
            /\ UNCHANGED last
       ELSE /\ last' = [Ended("error", "rep_lookup", "IndexError", {}, "", << >>)
                          EXCEPT !.which = which]
            /\ pc' = "idle"
            /\ frame' = NoFrame
  /\ UNCHANGED << env, rng, uuids, models, wrappers, files, tmpDirs, calls,
                  implRuns, mkdirs, noDirRuns, placements, trainLog >>

\* line 192: open(path, 'w') creates or truncates the file when the
\* directory exists and raises otherwise
ReportOpen(experiment) ==
  /\ pc = "rep_open"
  /\ IF frame.op = "tune" THEN experiment = frame.experiment
                          ELSE experiment \in Experiments
  /\ IF frame.dir \in existingDirs
       THEN /\ files' = [files EXCEPT ![ReportPath(frame.dir, experiment)] =
                           [state |-> "truncated", by |-> frame.call]]
            /\ pc' = After("rep_open")
            /\ frame' = [frame EXCEPT !.experiment = experiment]
            /\ UNCHANGED last
       ELSE /\ last' = [Ended("error", "rep_open", "FileNotFoundError", {}, "", << >>)
                          EXCEPT !.experiment = experiment]
            /\ pc' = "idle"
            /\ frame' = NoFrame
            /\ UNCHANGED files
  /\ UNCHANGED << env, rng, uuids, models, wrappers, tmpDirs, calls, implRuns,
                  mkdirs, noDirRuns, placements, trainLog >>

\* lines 193-194
ReportWrite ==
  /\ pc = "rep_write"
  /\ files' = [files EXCEPT ![ReportPath(frame.dir, frame.experiment)] =
                 [state |-> "complete", by |-> frame.call]]
  /\ pc' = After("rep_write")
  /\ UNCHANGED << env, rng, uuids, models, wrappers, tmpDirs, frame, last,
                  calls, implRuns, mkdirs, noDirRuns, placements, trainLog >>

\* lines 198-201 return: evaluate returns the mapping, tune appends its
\* macro-f1 score (line 268) and goes round the loop
EvalImplMetrics(multi) ==
  /\ pc = "eval_metrics"
  /\ frame.op = "tune" => multi = frame.multi
  /\ placements' = placements \cup
                     {[site |-> "metrics", stored |-> frame.w.device,
                       used |-> frame.w.device]}
  /\ IF frame.op = "evaluate"
       THEN /\ last' = [Ended("ok", "", "", EvalKeys, EvalEngine(multi), << >>)
                          EXCEPT !.metrics = TRUE, !.multi = multi]
            /\ pc' = "idle"
            /\ frame' = NoFrame
       ELSE /\ frame' = [frame EXCEPT
                 !.results = Append(@, << Score("macro-f1", models[frame.w.model],
                                               frame.data, frame.bs),
                                          << frame.lr, frame.w.dp, frame.gas >> >>),
                 !.i = @ + 1]
            /\ pc' = "tune_iter"
            /\ UNCHANGED last
  /\ UNCHANGED << env, rng, uuids, models, wrappers, files, tmpDirs, calls,
                  implRuns, mkdirs, noDirRuns, trainLog >>

\* ------------------------------------------------------------ tune
\* a wrong sweep: the generator is not seeded again for a configuration
TuneSeedKept(r) == r

\* line 240
TuneSeed(r) == Seeded(0)

\* line 207; the caller's script ends with the sweep
Tune(name, train, val, multi) ==
  /\ pc = "idle"
  /\ calls < MaxCalls
  /\ calls' = MaxCalls
  /\ frame' = [NoFrame EXCEPT !.op = "tune", !.name = name, !.train = train,
                              !.val = val, !.multi = multi, !.before = files,
                              !.call = calls + 1, !.base = Len(models)]
  /\ pc' = "tune_load"
  /\ last' = NoLast
  /\ UNCHANGED << env, rng, uuids, models, wrappers, files, tmpDirs, implRuns,
                  mkdirs, noDirRuns, placements, trainLog >>

\* lines 213-237: the grid, the tokenizer and the two datasets, results = []
TuneLoad ==
  /\ pc = "tune_load"
  /\ frame' = [frame EXCEPT !.i = 1, !.results = << >>]
  /\ pc' = "tune_iter"
  /\ UNCHANGED << env, rng, uuids, models, wrappers, files, tmpDirs, last,
                  calls, implRuns, mkdirs, noDirRuns, placements, trainLog >>

\* lines 238-256: the next configuration: seed, a new wrapper, the call of
\* _train_impl
TuneIter ==
  /\ pc = "tune_iter"
  /\ frame.i <= Len(params)
  /\ LET cfg == params[frame.i]
         seeded == TuneSeed(rng)
     IN  /\ models' = Append(models, InitWeights(frame.name, cfg[2], seeded))
         /\ rng' = Draw(seeded)
         /\ frame' = [frame EXCEPT
               !.w = [device |-> SelectDevice(cuda), model |-> Len(models) + 1,
                      name |-> frame.name, dp |-> cfg[2]],
               !.lr = cfg[1], !.gas = cfg[3], !.bs = batch_size,
               !.refs = Append(@, Len(models) + 1)]
  /\ implRuns' = implRuns + 1
  /\ pc' = "train_setup"
  /\ UNCHANGED << env, uuids, wrappers, files, tmpDirs, last, calls, mkdirs,
                  noDirRuns, placements, trainLog >>

\* line 270
TuneReturn ==
  /\ pc = "tune_iter"
  /\ frame.i > Len(params)
  /\ last' = Ended("ok", "", "", {}, "", frame.results)
  /\ pc' = "idle"
  /\ frame' = NoFrame
  /\ models' = Live(models)
  /\ UNCHANGED << env, rng, uuids, wrappers, files, tmpDirs, calls, implRuns,
                  mkdirs, noDirRuns, placements, trainLog >>

\* ------------------------------------------------------------ exceptions
\* the external call of the current stage raises
Raise ==
  /\ pc \in MayRaise
  /\ pc = "rep_batch" => BatchesLeft
  /\ pc = "tune_iter" => frame.i <= Len(params)
  /\ last' = [Ended("error", pc, "Exception", {}, "", << >>)
                EXCEPT !.metrics = (pc = "eval_metrics")]
  /\ pc' = "idle"
  /\ frame' = NoFrame
  /\ models' = Live(models)
  /\ noDirRuns' = IF pc \in {"train_setup", "train_mkdir"} THEN noDirRuns + 1
                                                            ELSE noDirRuns
  /\ UNCHANGED << env, rng, uuids, wrappers, files, tmpDirs, calls, implRuns,
                  mkdirs, placements, trainLog >>

\* ------------------------------------------------------------ specification
Next ==
  \/ \E name \in PretrainedNames, d \in ConstructDropouts : Construct(name, d)
  \/ \E k \in 1 .. MaxWrappers, train \in TrainSizes, val \in TrainSizes,
        lr \in TrainLrs, bs \in BatchSizes, gas \in TrainAccum,
        multi \in BOOLEAN, seed \in Seeds :
       Train(k, train, val, lr, bs, gas, multi, seed)
  \/ TrainLoad
  \/ TrainImplSetup
  \/ TrainImplMkdir
  \/ TrainImplEngine
  \/ TrainImplEngineRaise
  \/ \E k \in 1 .. MaxWrappers, bs \in BatchSizes : Evaluate(k, bs)
  \/ \E data \in DatasetSizes : EvalLoad(data)
  \/ EvalImplBuild
  \/ ReportBatch
  \/ ReportLoopEnd
  \/ ReportCompute
  \/ \E which \in WhichModels \cup {TuneWhichModel} : ReportLookup(which)
  \/ \E e \in Experiments \cup {TuneExperiment} : ReportOpen(e)
  \/ ReportWrite
  \/ \E multi \in BOOLEAN : EvalImplMetrics(multi)
  \/ \E name \in PretrainedNames, train \in TrainSizes, val \in TrainSizes,
        multi \in BOOLEAN :
       Tune(name, train, val, multi)
  \/ TuneLoad
  \/ TuneIter
  \/ TuneReturn
  \/ Raise

Spec == Init /\ [][Next]_vars

\* ------------------------------------------------------------ properties
TuneReturned == last.op = "tune" /\ last.status = "ok"

EvaluateEnded == last.op = "evaluate" /\ last.status \in {"ok", "error"}

\* C1: when tune returns, it returns 18 entries, each a macro-F1 score
\* paired with an (lr, dropout, accumulation-steps) tuple; the tuples are
\* pairwise distinct and are together the Cartesian product of
\* {5e-5, 3e-5, 2e-5}, {0, 0.1, 0.2} and {2, 4}.
C1_TuneReturnsGrid ==
  TuneReturned =>
    /\ Len(last.results) = 18
    /\ \A k \in 1 .. Len(last.results) :
         /\ Len(last.results[k]) = 2
         /\ last.results[k][1].key = "macro-f1"
    /\ \A j, k \in 1 .. Len(last.results) :
         j # k => last.results[j][2] # last.results[k][2]
    /\ {last.results[k][2] : k \in 1 .. Len(last.results)}
         = {5, 3, 2} \X {0, 1, 2} \X {2, 4}

C1_Witness == TuneReturned /\ Len(last.results) > 0

\* C2: for every selector outside {0,1,2}, negative ones included, evaluate
\* fails with an index error and writes no report file to any path.
C2_OutOfRangeSelectorFails ==
  (EvaluateEnded /\ last.which \notin {0, 1, 2}) =>
    /\ last.status = "error"
    /\ last.err = "IndexError"
    /\ files = last.before

\* C3: two train calls with identical arguments (on wrappers built with
\* identical arguments) start from the same RNG state and weights and end
\* in the same weights, on two wrappers or twice on one.
C3_TrainReproducible ==
  \A a, b \in trainLog :
    (a.ctor = b.ctor /\ a.args = b.args) => (a.start = b.start /\ a.final = b.final)

\* what tune records for a configuration when nothing but the configuration
\* and tune's own arguments decides it
SweepScore(cfg, name, multi, train, val) ==
  Score("macro-f1",
        Trained(InitWeights(name, cfg[2], Seeded(0)), Draw(Seeded(0)),
                cfg[1], 8, cfg[3], multi, train, val, TRUE),
        val, 8)

\* C5: every iteration of tune starts from the RNG state of seed 0, set
\* before its wrapper is built, and from a new wrapper whose model no
\* earlier wrapper holds; the score recorded for a configuration is the
\* same whatever ran before it.
C5_SweepIndependent ==
  frame.op = "tune" =>
    /\ pc = "train_setup" =>
         /\ rng = Draw(Seeded(0))
         /\ models[frame.w.model] = InitWeights(frame.name, frame.w.dp, Seeded(0))
    /\ \A j \in 1 .. Len(frame.refs) :
         /\ \A k \in 1 .. Len(wrappers) : wrappers[k].model # frame.refs[j]
         /\ \A k \in 1 .. Len(frame.refs) : j # k => frame.refs[j] # frame.refs[k]
    /\ \A k \in 1 .. Len(frame.results) :
         frame.results[k][1] =
           SweepScore(frame.results[k][2], frame.name, frame.multi, frame.train,
                      frame.val)

C5_Witness ==
  /\ frame.op = "tune"
  /\ Len(frame.results) = 18
  /\ trainLog # {}

\* C6: when the report branch fails during batch prediction, label mapping,
\* report computation, directory lookup or the opening of the output file,
\* every report file is as it was before the call: none created, none
\* truncated.
C6_NoPartialReport ==
  (/\ EvaluateEnded
   /\ last.status = "error"
   /\ last.stage \in {"rep_batch", "rep_labelmap", "rep_report", "rep_lookup",
                      "rep_open"})
    => files = last.before

C6_Witness ==
  /\ EvaluateEnded
  /\ last.err = "IndexError"
  /\ \E p \in ReportPaths : files[p].state = "complete"

\* C7: every batch tensor is placed on the device the wrapper stored at
\* construction; a wrapper built on CPU never places one on an accelerator.
C7_BatchesOnStoredDevice ==
  \A p \in placements : Resolve(p.used) = Resolve(p.stored)

\* C8 as stated: every invocation of _train_impl creates one scratch
\* directory, so n runs that have ended leave n directories.
C8_OneDirPerInvocation ==
  pc = "idle" => Cardinality(tmpDirs) = implRuns

\* C8 as amended: every invocation that gets past os.makedirs creates one
\* directory with a name no earlier run used, an invocation that raises
\* before creates none, and no directory is ever removed: the directories
\* of all runs that created one exist, also after a run that failed later.
C8_ScratchDirsKept ==
  /\ tmpDirs = {mkdirs[k] : k \in 1 .. Len(mkdirs)}
  /\ Cardinality(tmpDirs) = Len(mkdirs)
  /\ implRuns = Len(mkdirs) + noDirRuns
                  + (IF pc \in {"train_setup", "train_mkdir"} THEN 1 ELSE 0)

C8_Witness ==
  /\ Len(mkdirs) >= 2
  /\ last.status = "error"
  /\ last.stage = "train_engine"

\* C9: tune evaluates with report emission off: during a sweep no step of
\* the report branch runs, no report file changes and no selector error is
\* raised, although tune passes selector -1 and experiment -1; the public
\* evaluate always runs _evaluate_impl with report emission on.
C9_SweepWritesNoReport ==
  /\ frame.op = "tune" =>
       /\ pc \notin ReportStages
       /\ files = frame.before
       /\ pc = "eval_metrics" =>
            (frame.report = FALSE /\ frame.which = -1 /\ frame.experiment = -1)
  /\ last.op = "tune" =>
       /\ files = last.before
       /\ last.stage \notin ReportStages
       /\ last.err # "IndexError"
  /\ (frame.op = "evaluate" /\ pc \in ReportStages \cup {"eval_build", "eval_metrics"})
       => frame.report = TRUE

C9_Witness ==
  /\ frame.op = "tune"
  /\ pc = "eval_metrics"
  /\ frame.i >= 2
  /\ files # NoFiles

\* C10: in evaluate the report branch is over before the metric evaluation
\* starts: a failure in the report branch returns no mapping and runs no
\* metric evaluation, a failure of the metric evaluation leaves the report
\* of this call on disk, and a returned mapping has the six keys and comes
\* from the engine the multi-device flag selects.
C10_ReportBeforeMetrics ==
  /\ (frame.op = "evaluate" /\ pc = "eval_metrics") =>
       files[ReportPath(frame.dir, frame.experiment)]
         = [state |-> "complete", by |-> frame.call]
  /\ (EvaluateEnded /\ last.status = "error") =>
       /\ last.keys = {}
       /\ last.stage \in ReportStages => ~last.metrics
       /\ last.stage = "eval_metrics" =>
            files[ReportPath(PyIndex(ReportDirs, last.which), last.experiment)]
              = [state |-> "complete", by |-> last.call]
  /\ (EvaluateEnded /\ last.status = "ok") =>
       /\ last.keys = {"macro-prec", "macro-rec", "macro-f1",
                       "micro-prec", "micro-rec", "micro-f1"}
       /\ last.metrics
       /\ last.engine = (IF last.multi THEN "evaluate_on_multi_gpus" ELSE "evaluate")

C10_Witness ==
  /\ EvaluateEnded
  /\ last.stage = "eval_metrics"
  /\ last.multi = FALSE
  /\ \E p \in ReportPaths : files[p] = [state |-> "complete", by |-> last.call]

====
